---- MODULE Spec2Model ----
(***************************************************************************)
(* Task API of mini-project-college: the storage backends of db.py (the    *)
(* in-memory dict backend, the SQLite backend and the Postgres backend),   *)
(* the backend selection that db.py runs at import, and the Flask handlers *)
(* of app.py.                                                              *)
(*                                                                         *)
(*   Spec, SpecSQLite, SpecPostgres  requests served one at a time         *)
(*   SpecEach          the same calls made on the three backends           *)
(*   SpecSel           the import of db.py, over every environment         *)
(*   SpecConc          MemoryBackend calls of threads running together     *)
(*   SpecConcSQLite    SQLiteBackend calls of threads running together     *)
(*                                                                         *)
(* Python values are tagged records ([k |-> "str", v |-> ...]) so that the *)
(* dynamic typing of the handlers (truthiness, isinstance, attribute       *)
(* errors) is part of the model.  A Python str is a sequence of one-letter *)
(* strings.                                                                *)
(***************************************************************************)
EXTENDS Integers, Sequences, FiniteSets, TLC

VARIABLES
    phase,            \* "import" | "select" | "construct" | "serving" | "crashed"
    env,              \* the process environment read by db.py at import
    DATABASE_URL,     \* db.py:22
    PG_AVAILABLE,     \* db.py:21-28
    FORCE_BACKEND,    \* db.py:33
    backend,          \* the class selected for db._backend: "unset" | "memory" | "sqlite" | "postgres"
    objs,             \* heap of the row dicts the MemoryBackend created: ref -> row
    _data,            \* MemoryBackend._data: insertion-ordered <<key, ref>> entries
    _next_id,         \* MemoryBackend._next_id
    tasks,            \* SQLiteBackend: rows of table tasks
    sqlite_sequence,  \* SQLiteBackend: AUTOINCREMENT high-water mark of table tasks
    pg_tasks,         \* PostgresBackend: rows of table tasks
    tasks_id_seq,     \* PostgresBackend: last value of the sequence behind id SERIAL
    req,              \* the HTTP request served last
    call,             \* the db.* call that request made ("none" when it made none)
    ret,              \* what that call returned
    resp,             \* the HTTP response
    issued,           \* ids returned by create_task so far, in the order returned
    removed,          \* ids for which delete_task returned True so far
    live,             \* task dicts last returned for the ids created and not deleted
    threads,          \* the request threads of the server, each inside a db.* call or idle
    started           \* db.* calls the threads have started

vars == <<phase, env, DATABASE_URL, PG_AVAILABLE, FORCE_BACKEND, backend,
          objs, _data, _next_id, tasks, sqlite_sequence, pg_tasks, tasks_id_seq,
          req, call, ret, resp, issued, removed, live, threads, started>>

storeVars == <<objs, _data, _next_id, tasks, sqlite_sequence, pg_tasks, tasks_id_seq>>
startupVars == <<phase, env, DATABASE_URL, PG_AVAILABLE, FORCE_BACKEND, backend>>
httpVars == <<req, call, ret, resp>>
ghostVars == <<issued, removed, live>>
concVars == <<threads, started>>

----------------------------------------------------------------------------
\* Bounds

\* create_task calls a run may make (ids 1..MaxTasks are handed out)
MaxTasks == 2

\* request threads that run at the same time (SpecConc)
NThreads == 2

\* db.* calls the threads make in all (SpecConc)
MaxCalls == 3

----------------------------------------------------------------------------
\* Python values

PyNone == [k |-> "none"]
PyBool(b) == [k |-> "bool", v |-> b]
PyInt(n) == [k |-> "int", v |-> n]
PyStr(s) == [k |-> "str", v |-> s]
PyList(items) == [k |-> "list", v |-> items]
\* a dict with the keys "title" and "done"; Missing marks a key that is not there
Missing == [k |-> "missing"]
PyDict(title, done) == [k |-> "dict", title |-> title, done |-> done]
\* a task dict {"id": ..., "title": ..., "done": ...}
TaskDict(id, title, done) == [k |-> "task", id |-> id, title |-> title, done |-> done]

\* Python truthiness (bool(v), `not v`, `v or w`)
Truthy(v) ==
    CASE v.k = "none" -> FALSE
      [] v.k = "bool" -> v.v
      [] v.k = "int"  -> v.v # 0
      [] v.k = "str"  -> v.v # <<>>
      [] v.k = "list" -> v.v # <<>>
      [] v.k = "dict" -> v.title # Missing \/ v.done # Missing
      [] v.k = "task" -> TRUE

\* bool(v)
bool(v) == PyBool(Truthy(v))

\* v or w
Or(v, w) == IF Truthy(v) THEN v ELSE w

\* d.get(key) on a request dict: None for a missing key
get(d, key) == IF d[key] = Missing THEN PyNone ELSE d[key]

\* str.strip(): drop leading and trailing whitespace
Whitespace == {" "}

RECURSIVE lstrip(_)
lstrip(s) == IF s # <<>> /\ Head(s) \in Whitespace THEN lstrip(Tail(s)) ELSE s

RECURSIVE rstrip(_)
rstrip(s) ==
    IF s # <<>> /\ s[Len(s)] \in Whitespace THEN rstrip(SubSeq(s, 1, Len(s) - 1)) ELSE s

\* strip as it would be with only the leading whitespace dropped
strip_leading(s) == lstrip(s)

strip(s) == rstrip(lstrip(s))

\* str.lower() on the letters the environment values use
lowerChar(c) ==
    CASE c = "M" -> "m" [] c = "E" -> "e" [] c = "O" -> "o" [] c = "R" -> "r"
      [] c = "Y" -> "y" [] c = "S" -> "s" [] c = "Q" -> "q" [] c = "L" -> "l"
      [] c = "I" -> "i" [] c = "T" -> "t" [] c = "P" -> "p" [] c = "G" -> "g"
      [] OTHER -> c

lower(s) == [i \in DOMAIN s |-> lowerChar(s[i])]

----------------------------------------------------------------------------
\* Python dict as MemoryBackend._data uses it: <<key, ref>> entries in
\* insertion order; NoRef is the None that dict.get and dict.pop default to.

NoRef == 0

RECURSIVE dict_get(_, _)
dict_get(d, key) ==
    IF d = <<>> THEN NoRef
    ELSE IF Head(d)[1] = key THEN Head(d)[2]
    ELSE dict_get(Tail(d), key)

dict_setitem(d, key, ref) ==
    IF \E i \in DOMAIN d : d[i][1] = key
    THEN [i \in DOMAIN d |-> IF d[i][1] = key THEN <<key, ref>> ELSE d[i]]
    ELSE Append(d, <<key, ref>>)

dict_pop(d, key) == SelectSeq(d, LAMBDA e : e[1] # key)

dict_values(d) == [i \in DOMAIN d |-> d[i][2]]

\* sorted(rows, key=lambda r: r["id"]): stable insertion sort
RECURSIVE insort(_, _)
insort(row, s) ==
    IF s = <<>> THEN <<row>>
    ELSE IF row.id < Head(s).id THEN <<row>> \o s
    ELSE <<Head(s)>> \o insort(row, Tail(s))

RECURSIVE sorted(_)
sorted(rows) ==
    IF rows = <<>> THEN <<>>
    ELSE insort(rows[Len(rows)], sorted(SubSeq(rows, 1, Len(rows) - 1)))

\* a row dict is freed when nothing refers to it any more (reference
\* counting): neither the mapping nor a local variable of a running call
heldRefs(thr) ==
    UNION {{thr[t].row} \cup {thr[t].rows[i] : i \in DOMAIN thr[t].rows} : t \in DOMAIN thr}

collectWith(heap, data, thr) ==
    LET keep == {data[i][2] : i \in DOMAIN data} \cup heldRefs(thr)
    IN  [r \in (DOMAIN heap) \cap keep |-> heap[r]]

collect(heap, data) == collectWith(heap, data, threads)

\* the place of a newly allocated dict: any place not in use
newRef(heap) ==
    CHOOSE r \in _next_id..(_next_id + Cardinality(DOMAIN heap)) : r \notin DOMAIN heap

----------------------------------------------------------------------------
\* MemoryBackend (db.py:44-76).  Each method is given as the effect of one
\* whole call that runs alone: the new heap, mapping and counter, and the
\* value returned.

MemResult(heap, data, next, value) ==
    [objs |-> collect(heap, data), data |-> data, next_id |-> next,
     tasks |-> tasks, seq |-> sqlite_sequence,
     pg_tasks |-> pg_tasks, pg_seq |-> tasks_id_seq, ret |-> value]

_to_dict(row) == TaskDict(row.id, row.title, bool(row.done))

Memory_get_all_tasks ==
    LET rows == [i \in DOMAIN _data |-> objs[dict_values(_data)[i]]]
        srt  == sorted(rows)
    IN  PyList([i \in DOMAIN srt |-> _to_dict(srt[i])])

Memory_get_task(task_id) ==
    LET row == dict_get(_data, task_id)
    IN  IF row # NoRef /\ Truthy(objs[row]) THEN _to_dict(objs[row]) ELSE PyNone

\* create_task as it would be with the counter incremented before the store
Memory_create_task_late(title) ==
    LET task == TaskDict(_next_id, title, PyBool(FALSE))
        ref  == newRef(objs)
    IN  MemResult(objs @@ (ref :> task), dict_setitem(_data, _next_id + 1, ref),
                  _next_id + 1, _to_dict(task))

\* create_task as it would be with the id taken from the number of tasks
Memory_create_task_len(title) ==
    LET task == TaskDict(Len(_data) + 1, title, PyBool(FALSE))
        ref  == newRef(objs)
    IN  MemResult(objs @@ (ref :> task), dict_setitem(_data, Len(_data) + 1, ref),
                  _next_id + 1, _to_dict(task))

Memory_create_task(title) ==
    LET task == TaskDict(_next_id, title, PyBool(FALSE))
        ref  == newRef(objs)
    IN  MemResult(objs @@ (ref :> task), dict_setitem(_data, _next_id, ref),
                  _next_id + 1, _to_dict(task))

\* update_task as it would be with done assigned whether supplied or not
Memory_update_task_overwrite(task_id, title, done) ==
    LET row == dict_get(_data, task_id)
    IN  IF ~(row # NoRef /\ Truthy(objs[row]))
        THEN MemResult(objs, _data, _next_id, PyNone)
        ELSE LET r1 == IF title # PyNone THEN [objs[row] EXCEPT !.title = title]
                       ELSE objs[row]
                 r2 == [r1 EXCEPT !.done = bool(done)]
             IN  MemResult([objs EXCEPT ![row] = r2], _data, _next_id, _to_dict(r2))

\* update_task as it would be when working on a copy of the row
Memory_update_task_copy(task_id, title, done) ==
    LET row == dict_get(_data, task_id)
    IN  IF ~(row # NoRef /\ Truthy(objs[row]))
        THEN MemResult(objs, _data, _next_id, PyNone)
        ELSE LET r1 == IF title # PyNone THEN [objs[row] EXCEPT !.title = title]
                       ELSE objs[row]
                 r2 == IF done # PyNone THEN [r1 EXCEPT !.done = bool(done)] ELSE r1
             IN  MemResult(objs, _data, _next_id, _to_dict(r2))

\* update_task as it would be when storing a new row for an id not there
Memory_update_task_upsert(task_id, title, done) ==
    LET row == dict_get(_data, task_id)
    IN  IF ~(row # NoRef /\ Truthy(objs[row]))
        THEN LET task == TaskDict(task_id, title, bool(done))
                 ref  == newRef(objs)
             IN  MemResult(objs @@ (ref :> task), dict_setitem(_data, task_id, ref),
                           _next_id, PyNone)
        ELSE LET r1 == IF title # PyNone THEN [objs[row] EXCEPT !.title = title]
                       ELSE objs[row]
                 r2 == IF done # PyNone THEN [r1 EXCEPT !.done = bool(done)] ELSE r1
             IN  MemResult([objs EXCEPT ![row] = r2], _data, _next_id, _to_dict(r2))

Memory_update_task(task_id, title, done) ==
    LET row == dict_get(_data, task_id)
    IN  IF ~(row # NoRef /\ Truthy(objs[row]))
        THEN MemResult(objs, _data, _next_id, PyNone)
        ELSE LET r1 == IF title # PyNone THEN [objs[row] EXCEPT !.title = title]
                       ELSE objs[row]
                 r2 == IF done # PyNone THEN [r1 EXCEPT !.done = bool(done)] ELSE r1
             IN  MemResult([objs EXCEPT ![row] = r2], _data, _next_id, _to_dict(r2))

\* delete_task as it would be with a lookup in place of the pop
Memory_delete_task_keep(task_id) ==
    LET found == dict_get(_data, task_id)
    IN  MemResult(objs, _data, _next_id, PyBool(found # NoRef))

\* delete_task as it would be when handing the id of the newest task back to
\* the counter
Memory_delete_task_rewind(task_id) ==
    LET popped == dict_get(_data, task_id)
    IN  MemResult(objs, dict_pop(_data, task_id),
                  IF popped # NoRef /\ task_id = _next_id - 1 THEN task_id ELSE _next_id,
                  PyBool(popped # NoRef))

Memory_delete_task(task_id) ==
    LET popped == dict_get(_data, task_id)
    IN  MemResult(objs, dict_pop(_data, task_id), _next_id, PyBool(popped # NoRef))

----------------------------------------------------------------------------
\* SQLiteBackend (db.py:79-142).  Table tasks is a set of rows
\* [id, title, done] with title the TEXT and done the INTEGER 0/1 stored;
\* sqlite_sequence is the largest id AUTOINCREMENT has handed out.

SqlResult(table, seq, value) ==
    [objs |-> objs, data |-> _data, next_id |-> _next_id,
     tasks |-> table, seq |-> seq,
     pg_tasks |-> pg_tasks, pg_seq |-> tasks_id_seq, ret |-> value]

_row_to_dict(row) == TaskDict(row.id, PyStr(row.title), PyBool(row.done # 0))

\* SELECT id, title, done FROM tasks ORDER BY id ASC
RECURSIVE select_ordered(_)
select_ordered(table) ==
    IF table = {} THEN <<>>
    ELSE LET first == CHOOSE r \in table : \A q \in table : r.id <= q.id
         IN  <<first>> \o select_ordered(table \ {first})

\* SELECT id, title, done FROM tasks WHERE id = ?, then fetchone() and the
\* conversion of get_task
select_by_id(table, task_id) ==
    LET hit == {r \in table : r.id = task_id}
    IN  IF hit = {} THEN PyNone ELSE _row_to_dict(CHOOSE r \in hit : TRUE)

SQLite_get_all_tasks ==
    LET rows == select_ordered(tasks)
    IN  PyList([i \in DOMAIN rows |-> _row_to_dict(rows[i])])

SQLite_get_task(task_id) == select_by_id(tasks, task_id)

\* the id as it would be without AUTOINCREMENT: one more than the largest
\* id in the table
lastrowid_rowid ==
    LET used == {r.id : r \in tasks} \cup {0}
    IN  (CHOOSE m \in used : \A n \in used : n <= m) + 1

\* INTEGER PRIMARY KEY AUTOINCREMENT: one more than the largest id ever used
lastrowid ==
    LET used == {r.id : r \in tasks} \cup {sqlite_sequence}
    IN  (CHOOSE m \in used : \A n \in used : n <= m) + 1

SQLite_create_task(title) ==
    LET new_id == lastrowid
        table  == tasks \cup {[id |-> new_id, title |-> title.v, done |-> 0]}
    IN  SqlResult(table, new_id, select_by_id(table, new_id))

\* update_task as it would be with done written as 0 when not supplied
SQLite_update_task_default_done(task_id, title, done) ==
    LET set(r) ==
            [r EXCEPT !.title = IF title # PyNone THEN title.v ELSE @,
                      !.done  = IF Truthy(done) THEN 1 ELSE 0]
        table == {IF r.id = task_id THEN set(r) ELSE r : r \in tasks}
    IN  SqlResult(table, sqlite_sequence, select_by_id(table, task_id))

SQLite_update_task(task_id, title, done) ==
    IF title = PyNone /\ done = PyNone
    THEN SqlResult(tasks, sqlite_sequence, SQLite_get_task(task_id))
    ELSE LET set(r) ==
                 [r EXCEPT !.title = IF title # PyNone THEN title.v ELSE @,
                           !.done  = IF done # PyNone
                                     THEN (IF Truthy(done) THEN 1 ELSE 0) ELSE @]
             table == {IF r.id = task_id THEN set(r) ELSE r : r \in tasks}
         IN  SqlResult(table, sqlite_sequence, select_by_id(table, task_id))

SQLite_delete_task(task_id) ==
    LET hit == {r \in tasks : r.id = task_id}
    IN  SqlResult(tasks \ hit, sqlite_sequence, PyBool(Cardinality(hit) > 0))

----------------------------------------------------------------------------
\* PostgresBackend (db.py:145-209).  Table tasks is a set of rows
\* [id, title, done] with done the BOOLEAN stored; tasks_id_seq is the last
\* value the sequence of id SERIAL returned.  INSERT and UPDATE hand back the
\* row they wrote (RETURNING), so no call re-fetches.

PgResult(table, seq, value) ==
    [objs |-> objs, data |-> _data, next_id |-> _next_id,
     tasks |-> tasks, seq |-> sqlite_sequence,
     pg_tasks |-> table, pg_seq |-> seq, ret |-> value]

\* db.py:164-165; row is the tuple (id, title, done)
Postgres_row_to_dict(row) == TaskDict(row.id, PyStr(row.title), bool(PyBool(row.done)))

\* cur.fetchone() after a statement that returned the rows hit, and the
\* conversion of db.py:176, 183 and 202
fetchone(hit) == IF hit = {} THEN PyNone ELSE Postgres_row_to_dict(CHOOSE r \in hit : TRUE)

Postgres_get_all_tasks ==
    LET rows == select_ordered(pg_tasks)
    IN  PyList([i \in DOMAIN rows |-> Postgres_row_to_dict(rows[i])])

Postgres_get_task(task_id) == fetchone({r \in pg_tasks : r.id = task_id})

\* nextval of the sequence of id SERIAL
nextval == tasks_id_seq + 1

Postgres_create_task(title) ==
    LET row == [id |-> nextval, title |-> title.v, done |-> FALSE]
    IN  PgResult(pg_tasks \cup {row}, nextval, fetchone({row}))

Postgres_update_task(task_id, title, done) ==
    IF title = PyNone /\ done = PyNone
    THEN PgResult(pg_tasks, tasks_id_seq, Postgres_get_task(task_id))
    ELSE LET set(r) ==
                 [r EXCEPT !.title = IF title # PyNone THEN title.v ELSE @,
                           !.done  = IF done # PyNone THEN Truthy(done) ELSE @]
             hit   == {set(r) : r \in {q \in pg_tasks : q.id = task_id}}
             table == {r \in pg_tasks : r.id # task_id} \cup hit
         IN  PgResult(table, tasks_id_seq, fetchone(hit))

Postgres_delete_task(task_id) ==
    LET hit == {r \in pg_tasks : r.id = task_id}
    IN  PgResult(pg_tasks \ hit, tasks_id_seq, PyBool(Cardinality(hit) > 0))

----------------------------------------------------------------------------
\* The module-level functions of db.py delegate to the selected _backend.

NoChange(value) ==
    [objs |-> objs, data |-> _data, next_id |-> _next_id,
     tasks |-> tasks, seq |-> sqlite_sequence,
     pg_tasks |-> pg_tasks, pg_seq |-> tasks_id_seq, ret |-> value]

get_all_tasks ==
    NoChange(CASE backend = "memory" -> Memory_get_all_tasks
               [] backend = "sqlite" -> SQLite_get_all_tasks
               [] backend = "postgres" -> Postgres_get_all_tasks)

get_task(task_id) ==
    NoChange(CASE backend = "memory" -> Memory_get_task(task_id)
               [] backend = "sqlite" -> SQLite_get_task(task_id)
               [] backend = "postgres" -> Postgres_get_task(task_id))

create_task(title) ==
    CASE backend = "memory" -> Memory_create_task(title)
      [] backend = "sqlite" -> SQLite_create_task(title)
      [] backend = "postgres" -> Postgres_create_task(title)

update_task(task_id, title, done) ==
    CASE backend = "memory" -> Memory_update_task(task_id, title, done)
      [] backend = "sqlite" -> SQLite_update_task(task_id, title, done)
      [] backend = "postgres" -> Postgres_update_task(task_id, title, done)

delete_task(task_id) ==
    CASE backend = "memory" -> Memory_delete_task(task_id)
      [] backend = "sqlite" -> SQLite_delete_task(task_id)
      [] backend = "postgres" -> Postgres_delete_task(task_id)

----------------------------------------------------------------------------
\* Flask handlers of app.py.  A request is [method, task_id, body]; the body
\* is Malformed (not JSON) or the Python value request.get_json() parses it to.

Malformed == [k |-> "malformed"]
NoBody == [k |-> "nobody"]

\* the strings requests carry as titles
RawTitles == {<<>>, <<" ">>, <<"a">>, <<" ", "b", " ">>}

TitleFields == {Missing, PyNone, PyInt(0), PyInt(5)} \cup {PyStr(s) : s \in RawTitles}
DoneFields == {Missing, PyNone, PyBool(TRUE), PyBool(FALSE), PyInt(0)}

\* JSON objects with a title and a done field of which at most one is unusual
\* (null, of the wrong type, or an empty or blank title)
PlainTitles == {Missing, PyStr(<<"a">>), PyStr(<<" ", "b", " ">>)}
PlainDones == {Missing, PyBool(TRUE), PyBool(FALSE)}

Bodies ==
    {Malformed, PyNone, PyList(<<PyInt(1)>>), PyDict(PyInt(5), PyInt(0))}
        \cup {PyDict(t, d) : t \in PlainTitles, d \in DoneFields}
        \cup {PyDict(t, d) : t \in TitleFields, d \in PlainDones}

\* <int:task_id> of the routes
TaskIds == 1..MaxTasks

NoCall == [op |-> "none", task_id |-> 0, title |-> PyNone, done |-> PyNone]
Call(op, task_id, title, done) ==
    [op |-> op, task_id |-> task_id, title |-> title, done |-> done]

ErrorBody(msg) == [k |-> "error", error |-> msg]
StatusBody(msg) == [k |-> "status", status |-> msg]

Reply(c, store, status, body) ==
    [call |-> c, store |-> store, status |-> status, body |-> body]

\* an exception no handler catches: Flask answers 500
Unhandled(exc) == Reply(NoCall, NoChange(PyNone), 500, [k |-> "exception", type |-> exc])

\* app.py:25-27
health_view == Reply(NoCall, NoChange(PyNone), 200, StatusBody("ok"))

\* app.py:30-33
list_tasks_view ==
    LET r == get_all_tasks
    IN  Reply(Call("get_all_tasks", 0, PyNone, PyNone), r, 200, r.ret)

\* app.py:36-41
get_one_view(task_id) ==
    LET r == get_task(task_id)
        c == Call("get_task", task_id, PyNone, PyNone)
    IN  IF ~Truthy(r.ret) THEN Reply(c, r, 404, ErrorBody("Task not found"))
        ELSE Reply(c, r, 200, r.ret)

\* app.py:44-56
create_view(body) ==
    IF body = Malformed
    THEN Reply(NoCall, NoChange(PyNone), 400, ErrorBody("Invalid JSON body"))
    ELSE LET data == Or(body, PyDict(Missing, Missing))
         IN  IF data.k # "dict" THEN Unhandled("AttributeError")
             ELSE LET t == Or(get(data, "title"), PyStr(<<>>))
                  IN  IF t.k # "str" THEN Unhandled("AttributeError")
                      ELSE LET title == PyStr(strip(t.v))
                           IN  IF ~Truthy(title)
                               THEN Reply(NoCall, NoChange(PyNone), 400,
                                          ErrorBody("'title' is required"))
                               ELSE LET r == create_task(title)
                                    IN  Reply(Call("create_task", 0, title, PyNone),
                                              r, 201, r.ret)

\* app.py:80-83: the backend call of update and its status
update_title(c, task_id, title, done) ==
    LET r == update_task(task_id, title, done)
    IN  IF ~Truthy(r.ret) THEN Reply(c, r, 404, ErrorBody("Task not found"))
        ELSE Reply(c, r, 200, r.ret)

\* app.py:59-83
update_view(task_id, body) ==
    IF body = Malformed
    THEN Reply(NoCall, NoChange(PyNone), 400, ErrorBody("Invalid JSON body"))
    ELSE LET data == Or(body, PyDict(Missing, Missing))
         IN  IF data.k # "dict" THEN Unhandled("AttributeError")
             ELSE LET title == get(data, "title")
                      done  == get(data, "done")
                  IN  IF done # PyNone /\ done.k # "bool"
                      THEN Reply(NoCall, NoChange(PyNone), 400,
                                 ErrorBody("'done' must be boolean"))
                      ELSE IF title # PyNone /\ title.k # "str"
                      THEN Reply(NoCall, NoChange(PyNone), 400,
                                 ErrorBody("'title' must be string"))
                      ELSE IF title # PyNone /\ strip(title.v) = <<>>
                      THEN Reply(NoCall, NoChange(PyNone), 400,
                                 ErrorBody("'title' cannot be empty"))
                      ELSE LET t == IF title # PyNone THEN PyStr(strip(title.v))
                                    ELSE PyNone
                           IN  update_title(Call("update_task", task_id, t, done),
                                            task_id, t, done)

\* delete as it would be when answering 200 whatever delete_task returned
delete_view_always_ok(task_id) ==
    LET r == delete_task(task_id)
        c == Call("delete_task", task_id, PyNone, PyNone)
    IN  Reply(c, r, 200, StatusBody("deleted"))

\* app.py:86-91
delete_view(task_id) ==
    LET r == delete_task(task_id)
        c == Call("delete_task", task_id, PyNone, PyNone)
    IN  IF ~Truthy(r.ret) THEN Reply(c, r, 404, ErrorBody("Task not found"))
        ELSE Reply(c, r, 200, StatusBody("deleted"))

\* What a client has seen of the store: the ids create_task returned, the ids
\* delete_task removed, and the task last returned for each id still there.
Observe(out) ==
    LET c == out.call
        v == out.store.ret
    IN  /\ issued' = IF c.op = "create_task" THEN Append(issued, v.id) ELSE issued
        /\ removed' = IF c.op = "delete_task" /\ v = PyBool(TRUE)
                      THEN removed \cup {c.task_id} ELSE removed
        /\ live' = CASE c.op = "create_task" -> live \cup {v}
                     [] c.op = "update_task" /\ v # PyNone ->
                            {t \in live : t.id # c.task_id} \cup {v}
                     [] c.op = "delete_task" /\ v = PyBool(TRUE) ->
                            {t \in live : t.id # c.task_id}
                     [] OTHER -> live

\* one request served from start to end, alone
Serve(request, out) ==
    /\ out.call.op = "create_task" => Len(issued) < MaxTasks
    /\ req' = request
    /\ call' = out.call
    /\ ret' = out.store.ret
    /\ resp' = [status |-> out.status, body |-> out.body]
    /\ objs' = out.store.objs
    /\ _data' = out.store.data
    /\ _next_id' = out.store.next_id
    /\ tasks' = out.store.tasks
    /\ sqlite_sequence' = out.store.seq
    /\ pg_tasks' = out.store.pg_tasks
    /\ tasks_id_seq' = out.store.pg_seq
    /\ Observe(out)
    /\ UNCHANGED <<startupVars, concVars>>

Request(method, task_id, body) == [method |-> method, task_id |-> task_id, body |-> body]

health ==
    /\ phase = "serving"
    /\ \E out \in {health_view} : Serve(Request("GET /api/health", 0, NoBody), out)

list_tasks ==
    /\ phase = "serving"
    /\ \E out \in {list_tasks_view} : Serve(Request("GET /api/tasks", 0, NoBody), out)

get_one ==
    /\ phase = "serving"
    /\ \E task_id \in TaskIds : \E out \in {get_one_view(task_id)} :
           Serve(Request("GET /api/tasks/<id>", task_id, NoBody), out)

create ==
    /\ phase = "serving"
    /\ \E body \in Bodies : \E out \in {create_view(body)} :
           Serve(Request("POST /api/tasks", 0, body), out)

update ==
    /\ phase = "serving"
    /\ \E task_id \in TaskIds, body \in Bodies : \E out \in {update_view(task_id, body)} :
           Serve(Request("PUT /api/tasks/<id>", task_id, body), out)

delete ==
    /\ phase = "serving"
    /\ \E task_id \in TaskIds : \E out \in {delete_view(task_id)} :
           Serve(Request("DELETE /api/tasks/<id>", task_id, NoBody), out)

----------------------------------------------------------------------------
\* Requests served one at a time, the store starting with no tasks: by a
\* process whose backend is the in-memory one (Spec, the setting of
\* test_api.py), the SQLite one (SpecSQLite) or the Postgres one
\* (SpecPostgres, its server up and psycopg2 installed).

Str(word) ==
    CASE word = "memory" -> <<"m", "e", "m", "o", "r", "y">>
      [] word = "sqlite" -> <<"s", "q", "l", "i", "t", "e">>
      [] word = "postgres" -> <<"p", "o", "s", "t", "g", "r", "e", "s">>

NoThreads == [t \in {} |-> PyNone]
NoObjs == [r \in {} |-> PyNone]

EmptyStore ==
    /\ objs = NoObjs
    /\ _data = <<>>
    /\ _next_id = 1
    /\ tasks = {}
    /\ sqlite_sequence = 0
    /\ pg_tasks = {}
    /\ tasks_id_seq = 0
    /\ req = Request("none", 0, NoBody)
    /\ call = NoCall
    /\ ret = PyNone
    /\ resp = [status |-> 0, body |-> NoBody]
    /\ issued = <<>>
    /\ removed = {}
    /\ live = {}

Serving(kind) ==
    /\ phase = "serving"
    /\ backend = kind
    /\ env = [FORCE_BACKEND |-> Str(kind), DATABASE_URL |-> <<>>,
              psycopg2 |-> FALSE, tasks_db |-> FALSE, pg_up |-> FALSE]
    /\ DATABASE_URL = <<>>
    /\ PG_AVAILABLE = FALSE
    /\ FORCE_BACKEND = Str(kind)
    /\ EmptyStore
    /\ threads = NoThreads
    /\ started = 0

Init == Serving("memory")

InitSQLite == Serving("sqlite")

InitPostgres ==
    /\ phase = "serving"
    /\ backend = "postgres"
    /\ env = [FORCE_BACKEND |-> <<>>, DATABASE_URL |-> <<"p", "g", ":", "d", "b">>,
              psycopg2 |-> TRUE, tasks_db |-> FALSE, pg_up |-> TRUE]
    /\ DATABASE_URL = <<"p", "g", ":", "d", "b">>
    /\ PG_AVAILABLE = TRUE
    /\ FORCE_BACKEND = <<>>
    /\ EmptyStore
    /\ threads = NoThreads
    /\ started = 0

Next == health \/ list_tasks \/ get_one \/ create \/ update \/ delete

Spec == Init /\ [][Next]_vars

SpecSQLite == InitSQLite /\ [][Next]_vars

SpecPostgres == InitPostgres /\ [][Next]_vars

----------------------------------------------------------------------------
\* The three backends side by side: a MemoryBackend, a SQLiteBackend on a
\* new file and a PostgresBackend on a new database are given the same
\* calls, one call at a time, with the arguments the handlers pass (a
\* stripped non-empty title, done a bool or None).  ret holds what each of
\* the three returned; issued, removed and live follow the MemoryBackend.

ApiTitles == {PyStr(<<"a">>), PyStr(<<"b">>)}
ApiDones == {PyNone, PyBool(TRUE), PyBool(FALSE)}

\* BackendBase method c.op of the backend of class kind, called with the
\* arguments of c
invoke(kind, c) ==
    CASE c.op = "get_all_tasks" ->
             NoChange(CASE kind = "memory" -> Memory_get_all_tasks
                        [] kind = "sqlite" -> SQLite_get_all_tasks
                        [] kind = "postgres" -> Postgres_get_all_tasks)
      [] c.op = "get_task" ->
             NoChange(CASE kind = "memory" -> Memory_get_task(c.task_id)
                        [] kind = "sqlite" -> SQLite_get_task(c.task_id)
                        [] kind = "postgres" -> Postgres_get_task(c.task_id))
      [] c.op = "create_task" ->
             (CASE kind = "memory" -> Memory_create_task(c.title)
                [] kind = "sqlite" -> SQLite_create_task(c.title)
                [] kind = "postgres" -> Postgres_create_task(c.title))
      [] c.op = "update_task" ->
             (CASE kind = "memory" -> Memory_update_task(c.task_id, c.title, c.done)
                [] kind = "sqlite" -> SQLite_update_task(c.task_id, c.title, c.done)
                [] kind = "postgres" -> Postgres_update_task(c.task_id, c.title, c.done))
      [] c.op = "delete_task" ->
             (CASE kind = "memory" -> Memory_delete_task(c.task_id)
                [] kind = "sqlite" -> SQLite_delete_task(c.task_id)
                [] kind = "postgres" -> Postgres_delete_task(c.task_id))

\* call c made on each of the three backends
Each(c) ==
    LET m == invoke("memory", c)
        q == invoke("sqlite", c)
        g == invoke("postgres", c)
    IN  /\ c.op = "create_task" => Len(issued) < MaxTasks
        /\ call' = c
        /\ ret' = [memory |-> m.ret, sqlite |-> q.ret, postgres |-> g.ret]
        /\ objs' = m.objs
        /\ _data' = m.data
        /\ _next_id' = m.next_id
        /\ tasks' = q.tasks
        /\ sqlite_sequence' = q.seq
        /\ pg_tasks' = g.pg_tasks
        /\ tasks_id_seq' = g.pg_seq
        /\ Observe([call |-> c, store |-> m])
        /\ UNCHANGED <<startupVars, concVars, req, resp>>

each_get_all_tasks ==
    /\ phase = "serving"
    /\ Each(Call("get_all_tasks", 0, PyNone, PyNone))

each_get_task ==
    /\ phase = "serving"
    /\ \E task_id \in TaskIds : Each(Call("get_task", task_id, PyNone, PyNone))

each_create_task ==
    /\ phase = "serving"
    /\ \E title \in ApiTitles : Each(Call("create_task", 0, title, PyNone))

each_update_task ==
    /\ phase = "serving"
    /\ \E task_id \in TaskIds, title \in ApiTitles \cup {PyNone}, done \in ApiDones :
           Each(Call("update_task", task_id, title, done))

each_delete_task ==
    /\ phase = "serving"
    /\ \E task_id \in TaskIds : Each(Call("delete_task", task_id, PyNone, PyNone))

NextEach ==
    \/ each_get_all_tasks
    \/ each_get_task
    \/ each_create_task
    \/ each_update_task
    \/ each_delete_task

SpecEach == Init /\ [][NextEach]_vars

----------------------------------------------------------------------------
\* Startup: the import of db.py (db.py:20-33 and 212-226).  The environment
\* is the value of FORCE_BACKEND and of DATABASE_URL (<<>> when unset),
\* whether psycopg2 can be imported, whether backend/tasks.db exists, and
\* whether the database server accepts the connection.

ForceValues ==
    {<<>>, Str("memory"), Str("sqlite"), Str("postgres"),
     <<"M", "E", "M", "O", "R", "Y">>, <<"S", "q", "l", "i", "t", "e">>,
     <<"P", "O", "S", "T", "G", "R", "E", "S">>, <<"p", "g">>,
     <<" ", "m", "e", "m", "o", "r", "y">>}

UrlValues ==
    {<<>>, <<" ">>, <<"p", "g", ":", "d", "b">>, <<" ", "p", "g", ":", "d", "b", " ">>}

Envs ==
    [FORCE_BACKEND : ForceValues, DATABASE_URL : UrlValues,
     psycopg2 : BOOLEAN, tasks_db : BOOLEAN, pg_up : BOOLEAN]

\* db.py:21-33
read_environment ==
    /\ phase = "import"
    /\ phase' = "select"
    /\ DATABASE_URL' = strip(env.DATABASE_URL)
    /\ PG_AVAILABLE' = (strip(env.DATABASE_URL) # <<>> /\ env.psycopg2)
    /\ FORCE_BACKEND' = lower(env.FORCE_BACKEND)
    /\ UNCHANGED <<env, backend, storeVars, httpVars, ghostVars, concVars>>

\* the selection as it would be with the data file looked for first
selection_file_first ==
    IF FORCE_BACKEND = Str("memory") THEN "memory"
    ELSE IF FORCE_BACKEND = Str("sqlite") THEN "sqlite"
    ELSE IF FORCE_BACKEND = Str("postgres") /\ DATABASE_URL # <<>> /\ PG_AVAILABLE
    THEN "postgres"
    ELSE IF env.tasks_db THEN "sqlite"
    ELSE IF DATABASE_URL # <<>> /\ PG_AVAILABLE THEN "postgres"
    ELSE "memory"

\* the selection as it would be with the postgres override taken at its word
selection_force_postgres ==
    IF FORCE_BACKEND = Str("memory") THEN "memory"
    ELSE IF FORCE_BACKEND = Str("sqlite") THEN "sqlite"
    ELSE IF FORCE_BACKEND = Str("postgres") THEN "postgres"
    ELSE IF DATABASE_URL # <<>> /\ PG_AVAILABLE THEN "postgres"
    ELSE IF env.tasks_db THEN "sqlite"
    ELSE "memory"

\* db.py:214-226: the branch taken
selection ==
    IF FORCE_BACKEND = Str("memory") THEN "memory"
    ELSE IF FORCE_BACKEND = Str("sqlite") THEN "sqlite"
    ELSE IF FORCE_BACKEND = Str("postgres") /\ DATABASE_URL # <<>> /\ PG_AVAILABLE
    THEN "postgres"
    ELSE IF DATABASE_URL # <<>> /\ PG_AVAILABLE THEN "postgres"
    ELSE IF env.tasks_db THEN "sqlite"
    ELSE "memory"

select_backend ==
    /\ phase = "select"
    /\ phase' = "construct"
    /\ backend' = selection
    /\ UNCHANGED <<env, DATABASE_URL, PG_AVAILABLE, FORCE_BACKEND,
                   storeVars, httpVars, ghostVars, concVars>>

\* the construction as it would be with a fall back to the default chain's
\* other backends when psycopg2.connect fails
construct_backend_fallback ==
    /\ phase = "construct"
    /\ phase' = "serving"
    /\ backend' = IF backend = "postgres" /\ ~env.pg_up
                  THEN (IF env.tasks_db THEN "sqlite" ELSE "memory") ELSE backend
    /\ env' = IF backend' = "sqlite" THEN [env EXCEPT !.tasks_db = TRUE] ELSE env
    /\ UNCHANGED <<DATABASE_URL, PG_AVAILABLE, FORCE_BACKEND,
                   storeVars, httpVars, ghostVars, concVars>>

\* the constructor of the class selected: MemoryBackend (db.py:45-47) and
\* SQLiteBackend (db.py:80-97, which creates a missing file and table) start
\* serving; PostgresBackend (db.py:146-149) raises out of the import when
\* psycopg2.connect fails.  Rows already in an existing tasks.db are left out.
construct_backend ==
    /\ phase = "construct"
    /\ phase' = IF backend = "postgres" /\ ~env.pg_up THEN "crashed" ELSE "serving"
    /\ env' = IF backend = "sqlite" THEN [env EXCEPT !.tasks_db = TRUE] ELSE env
    /\ UNCHANGED <<DATABASE_URL, PG_AVAILABLE, FORCE_BACKEND, backend,
                   storeVars, httpVars, ghostVars, concVars>>

InitSel ==
    /\ phase = "import"
    /\ env \in Envs
    /\ DATABASE_URL = <<>>
    /\ PG_AVAILABLE = FALSE
    /\ FORCE_BACKEND = <<>>
    /\ backend = "unset"
    /\ EmptyStore
    /\ threads = NoThreads
    /\ started = 0

NextSel == read_environment \/ select_backend \/ construct_backend

SpecSel == InitSel /\ [][NextSel]_vars

----------------------------------------------------------------------------
\* Requests served by threads at the same time (app.run of app.py:97 serves
\* each request on a thread of its own) against the one MemoryBackend.  A
\* thread runs one db.* call at a time, statement by statement; a switch to
\* another thread can come between any two reads or writes of shared state
\* (the mapping, the counter, a row dict).  The id of a row is read with its
\* title, as nothing ever writes it.
\*
\* live is here the store as the calls completed so far leave it (a create
\* counts from the store into the mapping, an update from its last write, a
\* delete from the pop); legit collects, for a running get_task or
\* get_all_tasks, every task dict live held while the call ran.

Threads == 1..NThreads

Idle ==
    [pc |-> "idle", op |-> "none", task_id |-> 0, title |-> PyNone, done |-> PyNone,
     row |-> NoRef, rows |-> <<>>, tmp |-> PyNone, acc |-> <<>>, out |-> PyNone,
     legit |-> {}]

\* the calls the handlers make
ConcCalls ==
    {Call("get_all_tasks", 0, PyNone, PyNone),
     Call("create_task", 0, PyStr(<<"a">>), PyNone)}
        \cup {Call("get_task", i, PyNone, PyNone) : i \in TaskIds}
        \cup {Call("delete_task", i, PyNone, PyNone) : i \in TaskIds}
        \cup {Call("update_task", i, t, d) :
                 i \in TaskIds, t \in {PyNone, PyStr(<<"b">>)}, d \in {PyNone, PyBool(TRUE)}}

Entry(op) ==
    CASE op = "get_all_tasks" -> "all_53"
      [] op = "get_task" -> "get_56"
      [] op = "create_task" -> "cre_60"
      [] op = "update_task" -> "upd_66"
      [] op = "delete_task" -> "del_76"

Reading(th) == th.pc # "idle" /\ th.op \in {"get_task", "get_all_tasks"}

World ==
    [objs |-> objs, data |-> _data, next_id |-> _next_id,
     live |-> live, issued |-> issued, removed |-> removed]

\* thread t moves to th2 and leaves the shared state as w
Step(t, th2, w) ==
    LET thr == [threads EXCEPT ![t] = th2]
        pub == IF w.live = live THEN thr
               ELSE [u \in Threads |->
                        IF Reading(thr[u]) THEN [thr[u] EXCEPT !.legit = @ \cup w.live]
                        ELSE thr[u]]
    IN  /\ threads' = pub
        /\ objs' = collectWith(w.objs, w.data, pub)
        /\ _data' = w.data
        /\ _next_id' = w.next_id
        /\ live' = w.live
        /\ issued' = w.issued
        /\ removed' = w.removed
        /\ UNCHANGED <<startupVars, tasks, sqlite_sequence, pg_tasks, tasks_id_seq,
                       httpVars>>

\* the call returns value
Return(th, value) ==
    [th EXCEPT !.pc = "idle", !.row = NoRef, !.rows = <<>>, !.tmp = PyNone,
               !.acc = <<>>, !.out = value]

Mapped(data, ref) == \E i \in DOMAIN data : data[i][2] = ref

LivePut(lv, task) == {x \in lv : x.id # task.id} \cup {task}

Creating == {u \in Threads : threads[u].pc # "idle" /\ threads[u].op = "create_task"}

\* a request reaches its db.* call
begin_call(t) ==
    /\ threads[t].pc = "idle"
    /\ started < MaxCalls
    /\ started' = started + 1
    /\ \E c \in ConcCalls :
          /\ c.op = "create_task" => Len(issued) + Cardinality(Creating) < MaxTasks
          /\ Step(t, [Idle EXCEPT !.pc = Entry(c.op), !.op = c.op,
                                  !.task_id = c.task_id, !.title = c.title,
                                  !.done = c.done,
                                  !.legit = IF c.op \in {"get_task", "get_all_tasks"}
                                            THEN live ELSE {}],
                  World)

\* db.py:56-57: row = self._data.get(task_id); return ... if row else None
get_task_56(t) ==
    LET th == threads[t]
        row == dict_get(_data, th.task_id)
    IN  /\ th.pc = "get_56"
        /\ UNCHANGED started
        /\ IF row = NoRef THEN Step(t, Return(th, PyNone), World)
           ELSE Step(t, [th EXCEPT !.pc = "td_title", !.row = row], World)

\* db.py:50: row["id"], row["title"]
to_dict_title(t) ==
    LET th == threads[t]
    IN  /\ th.pc = "td_title"
        /\ UNCHANGED started
        /\ Step(t, [th EXCEPT !.pc = "td_done", !.tmp = objs[th.row].title], World)

\* db.py:50: bool(row["done"]), and the return of the method
to_dict_done(t) ==
    LET th == threads[t]
        value == TaskDict(objs[th.row].id, th.tmp, bool(objs[th.row].done))
    IN  /\ th.pc = "td_done"
        /\ UNCHANGED started
        /\ Step(t, Return(th, value),
                [World EXCEPT !.issued = IF th.op = "create_task"
                                         THEN Append(issued, value.id) ELSE @])

\* db.py:53: sorted(self._data.values(), key=...)
get_all_53(t) ==
    LET th == threads[t]
        refs == dict_values(_data)
        srt == sorted([i \in DOMAIN refs |-> [id |-> objs[refs[i]].id, ref |-> refs[i]]])
    IN  /\ th.pc = "all_53"
        /\ UNCHANGED started
        /\ IF srt = <<>> THEN Step(t, Return(th, PyList(<<>>)), World)
           ELSE Step(t, [th EXCEPT !.pc = "all_title",
                                   !.rows = [i \in DOMAIN srt |-> srt[i].ref]], World)

\* db.py:53, 50: _to_dict(v) of the next row: v["id"], v["title"]
get_all_title(t) ==
    LET th == threads[t]
    IN  /\ th.pc = "all_title"
        /\ UNCHANGED started
        /\ Step(t, [th EXCEPT !.pc = "all_done", !.tmp = objs[th.rows[1]].title], World)

\* db.py:53, 50: bool(v["done"]); the list is returned after the last row
get_all_done(t) ==
    LET th == threads[t]
        row == objs[th.rows[1]]
        acc == Append(th.acc, TaskDict(row.id, th.tmp, bool(row.done)))
    IN  /\ th.pc = "all_done"
        /\ UNCHANGED started
        /\ IF Len(th.rows) = 1 THEN Step(t, Return(th, PyList(acc)), World)
           ELSE Step(t, [th EXCEPT !.pc = "all_title", !.rows = Tail(@),
                                   !.tmp = PyNone, !.acc = acc], World)

\* db.py:60: task = {"id": self._next_id, "title": title, "done": False}
create_60(t) ==
    LET th == threads[t]
        ref == newRef(objs)
    IN  /\ th.pc = "cre_60"
        /\ UNCHANGED started
        /\ Step(t, [th EXCEPT !.pc = "cre_61", !.row = ref],
                [World EXCEPT !.objs = objs @@ (ref :> TaskDict(_next_id, th.title,
                                                                PyBool(FALSE)))])

\* db.py:61: self._data[self._next_id] = task
create_61(t) ==
    LET th == threads[t]
        old == dict_get(_data, _next_id)
        kept == IF old = NoRef THEN live ELSE {x \in live : x.id # objs[old].id}
    IN  /\ th.pc = "cre_61"
        /\ UNCHANGED started
        /\ Step(t, [th EXCEPT !.pc = "cre_62_load"],
                [World EXCEPT !.data = dict_setitem(_data, _next_id, th.row),
                              !.live = LivePut(kept, _to_dict(objs[th.row]))])

\* db.py:62: self._next_id += 1, the read
create_62_load(t) ==
    LET th == threads[t]
    IN  /\ th.pc = "cre_62_load"
        /\ UNCHANGED started
        /\ Step(t, [th EXCEPT !.pc = "cre_62_store", !.tmp = PyInt(_next_id)], World)

\* db.py:62: self._next_id += 1, the write
create_62_store(t) ==
    LET th == threads[t]
    IN  /\ th.pc = "cre_62_store"
        /\ UNCHANGED started
        /\ Step(t, [th EXCEPT !.pc = "td_title", !.tmp = PyNone],
                [World EXCEPT !.next_id = th.tmp.v + 1])

\* where update_task goes after db.py:67 and after db.py:70
AfterLookup(th) ==
    IF th.title # PyNone THEN "upd_70" ELSE IF th.done # PyNone THEN "upd_72" ELSE "td_title"

\* db.py:66-68: row = self._data.get(task_id); if not row: return None
update_66(t) ==
    LET th == threads[t]
        row == dict_get(_data, th.task_id)
    IN  /\ th.pc = "upd_66"
        /\ UNCHANGED started
        /\ IF row = NoRef THEN Step(t, Return(th, PyNone), World)
           ELSE Step(t, [th EXCEPT !.pc = AfterLookup(th), !.row = row], World)

\* db.py:70: row["title"] = title
update_70(t) ==
    LET th == threads[t]
        heap == [objs EXCEPT ![th.row].title = th.title]
        last == th.done = PyNone
    IN  /\ th.pc = "upd_70"
        /\ UNCHANGED started
        /\ Step(t, [th EXCEPT !.pc = IF last THEN "td_title" ELSE "upd_72"],
                [World EXCEPT !.objs = heap,
                              !.live = IF last /\ Mapped(_data, th.row)
                                       THEN LivePut(live, _to_dict(heap[th.row])) ELSE @])

\* db.py:72: row["done"] = bool(done)
update_72(t) ==
    LET th == threads[t]
        heap == [objs EXCEPT ![th.row].done = bool(th.done)]
    IN  /\ th.pc = "upd_72"
        /\ UNCHANGED started
        /\ Step(t, [th EXCEPT !.pc = "td_title"],
                [World EXCEPT !.objs = heap,
                              !.live = IF Mapped(_data, th.row)
                                       THEN LivePut(live, _to_dict(heap[th.row])) ELSE @])

\* db.py:76: return self._data.pop(task_id, None) is not None
delete_76(t) ==
    LET th == threads[t]
        popped == dict_get(_data, th.task_id)
    IN  /\ th.pc = "del_76"
        /\ UNCHANGED started
        /\ Step(t, Return(th, PyBool(popped # NoRef)),
                [World EXCEPT !.data = dict_pop(_data, th.task_id),
                              !.live = IF popped = NoRef THEN @
                                       ELSE {x \in @ : x.id # objs[popped].id},
                              !.removed = IF popped = NoRef THEN @
                                          ELSE @ \cup {th.task_id}])

InitConc ==
    /\ phase = "serving"
    /\ backend = "memory"
    /\ env = [FORCE_BACKEND |-> Str("memory"), DATABASE_URL |-> <<>>,
              psycopg2 |-> FALSE, tasks_db |-> FALSE, pg_up |-> FALSE]
    /\ DATABASE_URL = <<>>
    /\ PG_AVAILABLE = FALSE
    /\ FORCE_BACKEND = Str("memory")
    /\ EmptyStore
    /\ threads = [t \in Threads |-> Idle]
    /\ started = 0

NextConc ==
    \E t \in Threads :
        \/ begin_call(t)
        \/ get_task_56(t)
        \/ to_dict_title(t)
        \/ to_dict_done(t)
        \/ get_all_53(t)
        \/ get_all_title(t)
        \/ get_all_done(t)
        \/ create_60(t)
        \/ create_61(t)
        \/ create_62_load(t)
        \/ create_62_store(t)
        \/ update_66(t)
        \/ update_70(t)
        \/ update_72(t)
        \/ delete_76(t)

SpecConc == InitConc /\ [][NextConc]_vars

----------------------------------------------------------------------------
\* Requests served by threads at the same time against the one
\* SQLiteBackend.  The threads share self.conn (check_same_thread=False):
\* SQLite runs the statements sent on one connection one after another, and
\* every statement sees what the statements before it wrote, committed or
\* not.  A switch to another thread can come between any two statements.
\* tmp holds cur.lastrowid or cur.rowcount of the thread's own cursor.

SqlEntry(op) ==
    CASE op = "get_all_tasks" -> "sq_104"
      [] op = "get_task" -> "sq_109"
      [] op = "create_task" -> "sq_115"
      [] op = "update_task" -> "sq_121"
      [] op = "delete_task" -> "sq_140"

\* thread t moves to th2 and leaves the table as table, the sequence as seq
SqlStep(t, th2, table, seq) ==
    /\ threads' = [threads EXCEPT ![t] = th2]
    /\ tasks' = table
    /\ sqlite_sequence' = seq
    /\ UNCHANGED <<startupVars, objs, _data, _next_id, pg_tasks, tasks_id_seq,
                   httpVars, ghostVars>>

\* threads that have entered create_task and not yet run the INSERT
Inserting == {u \in Threads : threads[u].pc = "sq_115"}

\* a request reaches its db.* call
sqlite_begin_call(t) ==
    /\ threads[t].pc = "idle"
    /\ started < MaxCalls
    /\ started' = started + 1
    /\ \E c \in ConcCalls :
          /\ c.op = "create_task" => sqlite_sequence + Cardinality(Inserting) < MaxTasks
          /\ SqlStep(t, [Idle EXCEPT !.pc = SqlEntry(c.op), !.op = c.op,
                                     !.task_id = c.task_id, !.title = c.title,
                                     !.done = c.done],
                     tasks, sqlite_sequence)

\* db.py:103-105
sqlite_get_all_104(t) ==
    LET th == threads[t]
    IN  /\ th.pc = "sq_104"
        /\ UNCHANGED started
        /\ SqlStep(t, Return(th, SQLite_get_all_tasks), tasks, sqlite_sequence)

\* db.py:108-111, called by a handler
sqlite_get_task_109(t) ==
    LET th == threads[t]
    IN  /\ th.pc = "sq_109"
        /\ UNCHANGED started
        /\ SqlStep(t, Return(th, SQLite_get_task(th.task_id)), tasks, sqlite_sequence)

\* db.py:114-115: the INSERT
sqlite_create_115(t) ==
    LET th == threads[t]
        new_id == lastrowid
    IN  /\ th.pc = "sq_115"
        /\ UNCHANGED started
        /\ SqlStep(t, [th EXCEPT !.pc = "sq_116", !.tmp = PyInt(new_id)],
                   tasks \cup {[id |-> new_id, title |-> th.title.v, done |-> 0]}, new_id)

\* db.py:116: self.conn.commit()
sqlite_create_116(t) ==
    LET th == threads[t]
    IN  /\ th.pc = "sq_116"
        /\ UNCHANGED started
        /\ SqlStep(t, [th EXCEPT !.pc = "sq_118"], tasks, sqlite_sequence)

\* db.py:117-118: new_id = cur.lastrowid; return self.get_task(new_id)
sqlite_create_118(t) ==
    LET th == threads[t]
    IN  /\ th.pc = "sq_118"
        /\ UNCHANGED started
        /\ SqlStep(t, Return(th, SQLite_get_task(th.tmp.v)), tasks, sqlite_sequence)

\* db.py:121-122: with neither field, return self.get_task(task_id)
sqlite_update_121(t) ==
    LET th == threads[t]
    IN  /\ th.pc = "sq_121"
        /\ UNCHANGED started
        /\ IF th.title = PyNone /\ th.done = PyNone
           THEN SqlStep(t, Return(th, SQLite_get_task(th.task_id)), tasks, sqlite_sequence)
           ELSE SqlStep(t, [th EXCEPT !.pc = "sq_134"], tasks, sqlite_sequence)

\* db.py:123-134: the UPDATE
sqlite_update_134(t) ==
    LET th == threads[t]
    IN  /\ th.pc = "sq_134"
        /\ UNCHANGED started
        /\ SqlStep(t, [th EXCEPT !.pc = "sq_135"],
                   SQLite_update_task(th.task_id, th.title, th.done).tasks, sqlite_sequence)

\* db.py:135: self.conn.commit()
sqlite_update_135(t) ==
    LET th == threads[t]
    IN  /\ th.pc = "sq_135"
        /\ UNCHANGED started
        /\ SqlStep(t, [th EXCEPT !.pc = "sq_136"], tasks, sqlite_sequence)

\* db.py:136: return self.get_task(task_id)
sqlite_update_136(t) ==
    LET th == threads[t]
    IN  /\ th.pc = "sq_136"
        /\ UNCHANGED started
        /\ SqlStep(t, Return(th, SQLite_get_task(th.task_id)), tasks, sqlite_sequence)

\* db.py:139-140: the DELETE
sqlite_delete_140(t) ==
    LET th == threads[t]
        r == SQLite_delete_task(th.task_id)
    IN  /\ th.pc = "sq_140"
        /\ UNCHANGED started
        /\ SqlStep(t, [th EXCEPT !.pc = "sq_141", !.tmp = r.ret], r.tasks, sqlite_sequence)

\* db.py:141-142: self.conn.commit(); return cur.rowcount > 0
sqlite_delete_141(t) ==
    LET th == threads[t]
    IN  /\ th.pc = "sq_141"
        /\ UNCHANGED started
        /\ SqlStep(t, Return(th, th.tmp), tasks, sqlite_sequence)

InitConcSQLite ==
    /\ phase = "serving"
    /\ backend = "sqlite"
    /\ env = [FORCE_BACKEND |-> Str("sqlite"), DATABASE_URL |-> <<>>,
              psycopg2 |-> FALSE, tasks_db |-> TRUE, pg_up |-> FALSE]
    /\ DATABASE_URL = <<>>
    /\ PG_AVAILABLE = FALSE
    /\ FORCE_BACKEND = Str("sqlite")
    /\ EmptyStore
    /\ threads = [t \in Threads |-> Idle]
    /\ started = 0

NextConcSQLite ==
    \E t \in Threads :
        \/ sqlite_begin_call(t)
        \/ sqlite_get_all_104(t)
        \/ sqlite_get_task_109(t)
        \/ sqlite_create_115(t)
        \/ sqlite_create_116(t)
        \/ sqlite_create_118(t)
        \/ sqlite_update_121(t)
        \/ sqlite_update_134(t)
        \/ sqlite_update_135(t)
        \/ sqlite_update_136(t)
        \/ sqlite_delete_140(t)
        \/ sqlite_delete_141(t)

SpecConcSQLite == InitConcSQLite /\ [][NextConcSQLite]_vars

----------------------------------------------------------------------------
\* Properties of the requests served one at a time (Spec, SpecSQLite)

\* getById(id) on the current store
Stored(task_id) == get_task(task_id).ret

ValidTitle(title) ==
    /\ title.k = "str"
    /\ title.v # <<>>
    /\ title.v[1] \notin Whitespace
    /\ title.v[Len(title.v)] \notin Whitespace

\* seq lists exactly the task dicts of set, in strictly ascending id order
IsListingOf(seq, set) ==
    /\ Len(seq) = Cardinality(set)
    /\ {seq[i] : i \in DOMAIN seq} = set
    /\ \A i, j \in DOMAIN seq : i < j => seq[i].id < seq[j].id

\* C1: create(t) returns a task with title t and done = false, a getById of
\* the returned id right after it returns that same task, and the first
\* create on a fresh in-memory backend returns id 1.
C1_CreateGetRoundTrip ==
    call.op = "create_task" =>
        /\ ret.k = "task"
        /\ ret.title = call.title
        /\ ret.done = PyBool(FALSE)
        /\ Stored(ret.id) = ret
        /\ (backend = "memory" /\ Len(issued) = 1 => ret.id = 1)

\* a create served after a delete, its task read back
C1_Witness ==
    /\ call.op = "create_task"
    /\ removed # {}
    /\ ret.id = 2
    /\ Stored(2) = ret

\* C2: every create returns an id strictly greater than the id of every
\* earlier create, the ids of tasks deleted since included.
C2_IdsMonotonic ==
    \A i, j \in DOMAIN issued : i < j => issued[i] < issued[j]

\* the task with the highest id was deleted, and a create followed
C2_Witness ==
    /\ call.op = "create_task"
    /\ Len(issued) = 2
    /\ issued[1] \in removed
    /\ Stored(issued[1]) = PyNone

\* C3: update of an existing id overwrites the fields supplied and only
\* those, returns the task as stored after it, and keeps the id.
C3_PartialUpdate ==
    [][\A i \in TaskIds :
          (call'.op = "update_task" /\ call'.task_id = i /\ Stored(i) # PyNone) =>
              /\ ret' = Stored(i)'
              /\ ret'.id = i
              /\ ret'.title = IF call'.title # PyNone THEN call'.title
                              ELSE Stored(i).title
              /\ ret'.done = IF call'.done # PyNone THEN call'.done
                             ELSE Stored(i).done]_vars

\* a title-only update of a task whose done had been set to true
C3_Witness ==
    /\ call.op = "update_task"
    /\ call.title # PyNone
    /\ call.done = PyNone
    /\ ret # PyNone
    /\ ret.title = call.title
    /\ ret.done = PyBool(TRUE)

\* C4: delete(id) returns true exactly when the task existed just before;
\* an id deleted with true is absent from then on, whatever follows.
C4_DeleteSemantics ==
    /\ [](\A i \in removed : Stored(i) = PyNone)
    /\ [][\A i \in TaskIds :
             (call'.op = "delete_task" /\ call'.task_id = i) =>
                 ret' = PyBool(Stored(i) # PyNone)]_vars

\* a second delete of a deleted id answered false, after another create
C4_Witness ==
    /\ call.op = "delete_task"
    /\ call.task_id \in removed
    /\ ret = PyBool(FALSE)
    /\ Len(issued) = 2

\* C9: listAll returns exactly the tasks created and not deleted, each as
\* last written, in strictly ascending id order (the empty list, with
\* status 200, when there are none), and a listAll repeated right away
\* returns the same list.
C9_ListAll ==
    call.op = "get_all_tasks" =>
        /\ ret.k = "list"
        /\ IsListingOf(ret.v, live)
        /\ (live = {} => ret = PyList(<<>>))
        /\ resp = [status |-> 200, body |-> ret]
        /\ get_all_tasks.ret = ret

\* a listing after a create, a delete, a second create and an update
C9_Witness ==
    /\ call.op = "get_all_tasks"
    /\ Len(ret.v) = 1
    /\ removed # {}
    /\ \E i \in DOMAIN ret.v : ret.v[i].done = PyBool(TRUE)

\* a request body that is a client input error: not JSON, JSON that is not an
\* object, or an object whose title (POST: missing, empty, blank, not a
\* string; PUT: not a string, empty) or done (PUT: not a boolean) is wrong
BadTitle(body) ==
    \/ body.title \in {Missing, PyNone}
    \/ body.title.k # "str"
    \/ strip(body.title.v) = <<>>

ClientInputError(r) ==
    /\ r.method \in {"POST /api/tasks", "PUT /api/tasks/<id>"}
    /\ \/ r.body.k # "dict"
       \/ r.method = "POST /api/tasks" /\ BadTitle(r.body)
       \/ /\ r.method = "PUT /api/tasks/<id>"
          /\ \/ r.body.title.k = "int"
             \/ r.body.title = PyStr(<<>>)
             \/ r.body.done.k = "int"

\* C7: a POST or PUT whose body is a client input error is answered 400 with
\* an error body, makes no backend call and leaves the store as it was.
C7_ClientErrors400 ==
    [][ClientInputError(req') =>
          /\ resp'.status = 400
          /\ resp'.body.k = "error"
          /\ call' = NoCall
          /\ UNCHANGED storeVars]_vars

\* C10: every stored title is a non-empty string without leading or trailing
\* whitespace and every stored done is a boolean (the INTEGER 0 or 1 in
\* SQLite); create_task and update_task are only ever called with such a
\* title (update_task: or None) and with done a boolean or None.
C10_StoredTitlesValid ==
    /\ \A r \in DOMAIN objs : ValidTitle(objs[r].title) /\ objs[r].done.k = "bool"
    /\ \A row \in tasks : ValidTitle(PyStr(row.title)) /\ row.done \in {0, 1}
    /\ call.op = "create_task" => ValidTitle(call.title)
    /\ call.op = "update_task" =>
           /\ call.title = PyNone \/ ValidTitle(call.title)
           /\ call.done = PyNone \/ call.done.k = "bool"

\* a task stored from a title sent with blanks around it, with a PUT of a
\* blank title refused after it
C10_Witness ==
    /\ req.method = "PUT /api/tasks/<id>"
    /\ req.body.k = "dict"
    /\ req.body.title = PyStr(<<" ">>)
    /\ resp.status = 400
    /\ \E r \in DOMAIN objs : objs[r].title = PyStr(<<"b">>)

\* a PUT body the API accepts: a JSON object whose title, if there, is a
\* string that is not blank and whose done, if there, is a boolean
ValidPutBody(body) ==
    /\ body.k = "dict"
    /\ body.title # Missing => (body.title.k = "str" /\ strip(body.title.v) # <<>>)
    /\ body.done # Missing => body.done.k = "bool"

NotFound == [status |-> 404, body |-> ErrorBody("Task not found")]

\* C15: GET /api/tasks/<id>, and PUT /api/tasks/<id> with a valid body, are
\* answered 200 with the task when the id exists and 404 "Task not found"
\* when it does not; DELETE /api/tasks/<id> is answered 200 "deleted" exactly
\* when the task existed, which it then no longer does, and 404 otherwise, so
\* that the same DELETE sent again is answered 404.
C15_StatusMapping ==
    [][\A i \in TaskIds :
          /\ (req'.method = "GET /api/tasks/<id>" /\ req'.task_id = i) =>
                 resp' = IF Stored(i) # PyNone
                         THEN [status |-> 200, body |-> Stored(i)] ELSE NotFound
          /\ (/\ req'.method = "PUT /api/tasks/<id>"
              /\ req'.task_id = i
              /\ ValidPutBody(req'.body)) =>
                 /\ call'.op = "update_task"
                 /\ resp' = IF Stored(i) # PyNone
                            THEN [status |-> 200, body |-> Stored(i)'] ELSE NotFound
                 /\ Stored(i) # PyNone => Stored(i)' # PyNone
          /\ (req'.method = "DELETE /api/tasks/<id>" /\ req'.task_id = i) =>
                 /\ resp' = IF Stored(i) # PyNone
                            THEN [status |-> 200, body |-> StatusBody("deleted")]
                            ELSE NotFound
                 /\ Stored(i)' = PyNone
                 /\ (req = req' /\ resp.status = 200) => resp'.status = 404]_vars

\* a DELETE of an id deleted before, answered 404
C15_Witness ==
    /\ req.method = "DELETE /api/tasks/<id>"
    /\ req.task_id \in removed
    /\ resp = NotFound
    /\ ret = PyBool(FALSE)

\* the keys of MemoryBackend._data
Keys == {_data[k][1] : k \in DOMAIN _data}

\* the store as a call of the in-memory backend that changes nothing leaves it
Untouched(r) == r.objs = objs /\ r.data = _data /\ r.next_id = _next_id

\* C17: update_task(id, ...) and delete_task(id) of the in-memory backend
\* leave the task of every other id as it is, add no task and leave the
\* next-id counter as it is; for an id that is not stored get_task and
\* update_task (whatever title and done) return None, delete_task returns
\* False, and the store is left unchanged.
C17_MutationFrame ==
    /\ [](\A i \in TaskIds : Memory_get_task(i) = PyNone =>
              /\ \A t \in ApiTitles \cup {PyNone, PyInt(5)} :
                 \A d \in ApiDones \cup {PyInt(0)} :
                     /\ Memory_update_task(i, t, d).ret = PyNone
                     /\ Untouched(Memory_update_task(i, t, d))
              /\ Memory_delete_task(i).ret = PyBool(FALSE)
              /\ Untouched(Memory_delete_task(i)))
    /\ [][\A i \in TaskIds :
             /\ (call'.op \in {"update_task", "delete_task"} /\ call'.task_id = i) =>
                    /\ \A j \in TaskIds \ {i} : Memory_get_task(j)' = Memory_get_task(j)
                    /\ Keys' \subseteq Keys
                    /\ _next_id' = _next_id
             /\ (/\ call'.op \in {"get_task", "update_task", "delete_task"}
                 /\ call'.task_id = i
                 /\ Memory_get_task(i) = PyNone) =>
                    /\ ret' = IF call'.op = "delete_task" THEN PyBool(FALSE) ELSE PyNone
                    /\ UNCHANGED storeVars]_vars

\* an update of task 1 answered with the task, while task 2 holds other values
C17_Witness ==
    /\ call.op = "update_task"
    /\ call.task_id = 1
    /\ ret = TaskDict(1, PyStr(<<"b">>), PyBool(TRUE))
    /\ Memory_get_task(2) = TaskDict(2, PyStr(<<"a">>), PyBool(FALSE))

\* an update of an id that was deleted, another task being stored
C17_WitnessAbsent ==
    /\ call.op = "update_task"
    /\ call.task_id \in removed
    /\ call.title # PyNone
    /\ ret = PyNone
    /\ _data # <<>>

\* C18: in every state the in-memory backend reaches by calls made one at a
\* time, each row is stored under the key that is its id, every key is a
\* positive integer below the next-id counter, and the counter is 1 plus the
\* number of create_task calls made.
C18_MemoryStoreInvariant ==
    /\ \A k \in DOMAIN _data :
           /\ objs[_data[k][2]].id = _data[k][1]
           /\ _data[k][1] \in Nat \ {0}
           /\ _data[k][1] < _next_id
    /\ \A k, l \in DOMAIN _data : k # l => _data[k][1] # _data[l][1]
    /\ _next_id = 1 + Len(issued)

\* the store after a create, a delete of that task and a second create
C18_Witness ==
    /\ call.op = "create_task"
    /\ Keys = {2}
    /\ _next_id = 3
    /\ removed = {1}

----------------------------------------------------------------------------
\* Properties of the startup (SpecSel)

Selected == phase \in {"construct", "serving", "crashed"}

\* FORCE_BACKEND names one of the three backends
OverrideNames(kind) == FORCE_BACKEND = Str(kind)
NoOverride == \A kind \in {"memory", "sqlite", "postgres"} : ~OverrideNames(kind)

\* the connection string is set and psycopg2 was imported
NetworkReady == DATABASE_URL # <<>> /\ PG_AVAILABLE

\* what the default chain chooses
DefaultChoice ==
    IF NetworkReady THEN "postgres" ELSE IF env.tasks_db THEN "sqlite" ELSE "memory"

\* C5: with no override naming a backend, the networked backend is selected
\* exactly when the connection string is non-empty and the client library
\* loaded, else the embedded-file backend exactly when the data file exists,
\* else the in-memory backend; one backend is selected in every case.
C5_DefaultChain ==
    (Selected /\ NoOverride) =>
        /\ backend \in {"memory", "sqlite", "postgres"}
        /\ (backend = "postgres") <=> NetworkReady
        /\ (backend = "sqlite") <=> (~NetworkReady /\ env.tasks_db)
        /\ (backend = "memory") <=> (~NetworkReady /\ ~env.tasks_db)
        /\ PG_AVAILABLE <=> (DATABASE_URL # <<>> /\ env.psycopg2)

\* an unknown override value, a connection string but no client library, and
\* a data file: the SQLite backend serves
C5_Witness ==
    /\ phase = "serving"
    /\ FORCE_BACKEND = <<"p", "g">>
    /\ DATABASE_URL # <<>>
    /\ ~env.psycopg2
    /\ env.tasks_db
    /\ backend = "sqlite"

\* C6: an override naming the in-memory or the embedded-file backend is
\* honoured whatever the connection string and the data file; one naming the
\* networked backend is honoured only with the connection string present and
\* the client library loaded, and otherwise the default chain's choice is
\* selected (embedded-file if the data file exists, else in-memory) and the
\* startup does not fail.
C6_Override ==
    Selected =>
        /\ OverrideNames("memory") => backend = "memory"
        /\ OverrideNames("sqlite") => backend = "sqlite"
        /\ (OverrideNames("postgres") /\ NetworkReady) => backend = "postgres"
        /\ (OverrideNames("postgres") /\ ~NetworkReady) =>
               /\ backend = DefaultChoice
               /\ backend = IF env.tasks_db THEN "sqlite" ELSE "memory"
               /\ phase # "crashed"

\* the postgres override without a connection string, a data file present:
\* the SQLite backend serves
C6_Witness ==
    /\ phase = "serving"
    /\ OverrideNames("postgres")
    /\ DATABASE_URL = <<>>
    /\ env.tasks_db
    /\ backend = "sqlite"

\* the memory override honoured although the networked backend is ready and
\* the data file exists
C6_WitnessMemory ==
    /\ phase = "serving"
    /\ env.FORCE_BACKEND = <<"M", "E", "M", "O", "R", "Y">>
    /\ NetworkReady
    /\ env.tasks_db
    /\ backend = "memory"

\* C16: when the Postgres backend is selected, by the override or by the
\* default chain, and the connection to the server cannot be made, the
\* process never serves: the import ends in the exception, and no other
\* backend takes the place of the one selected.
C16_StartupFailureFatal ==
    /\ []((backend = "postgres" /\ ~env.pg_up) => phase # "serving")
    /\ []((Selected /\ backend = "postgres" /\ ~env.pg_up /\ phase # "construct")
              => phase = "crashed")
    /\ [][backend = "postgres" => backend' = "postgres"]_vars
    /\ [][phase = "crashed" => phase' = "crashed"]_vars

\* the default chain selected Postgres, the server is down, and the import
\* failed although backend/tasks.db exists
C16_Witness ==
    /\ phase = "crashed"
    /\ NoOverride
    /\ backend = "postgres"
    /\ env.tasks_db
    /\ ~env.pg_up

\* the same with Postgres selected by the override
C16_WitnessOverride ==
    /\ phase = "crashed"
    /\ OverrideNames("postgres")
    /\ backend = "postgres"
    /\ ~env.pg_up

----------------------------------------------------------------------------
\* Properties of the requests served at the same time (SpecConc)

\* the task dicts a finished read returned
Returned(th) ==
    IF th.op = "get_task" /\ th.out # PyNone THEN {th.out}
    ELSE IF th.op = "get_all_tasks" /\ th.out # PyNone
    THEN {th.out.v[i] : i \in DOMAIN th.out.v}
    ELSE {}

\* C8: a getById or listAll that runs while an update(id, T2, D2) changes a
\* task holding (T1, D1) returns (T1, D1) or (T2, D2) for that id: every task
\* dict a read returns is one the store held, between completed calls, at
\* some moment of the read.
C8_NoPartialUpdate ==
    \A t \in Threads :
        threads[t].pc = "idle" => Returned(threads[t]) \subseteq threads[t].legit

\* C12: create_task calls of the in-memory backend that run at the same
\* time return ids that differ from each other, and once every call has
\* returned, each task created and not deleted is stored under the id its
\* create returned.
C12_UniqueIdsConcurrent ==
    /\ \A i, j \in DOMAIN issued : i # j => issued[i] # issued[j]
    /\ (\A t \in Threads : threads[t].pc = "idle") =>
           \A i \in DOMAIN issued :
               issued[i] \notin removed =>
                   /\ dict_get(_data, issued[i]) # NoRef
                   /\ objs[dict_get(_data, issued[i])].id = issued[i]

----------------------------------------------------------------------------
\* Properties of the SQLiteBackend calls run at the same time (SpecConcSQLite)

\* C11: create_task(t) of the SQLite backend returns a task dict, never None,
\* with title t and done false, whatever update_task and delete_task calls
\* of other threads run between its statements.
C11_CreateReturnsRecord ==
    \A t \in Threads :
        (threads[t].pc = "idle" /\ threads[t].op = "create_task") =>
            /\ threads[t].out.k = "task"
            /\ threads[t].out.title = threads[t].title
            /\ threads[t].out.done = PyBool(FALSE)

----------------------------------------------------------------------------
\* Properties of the three backends given the same calls (SpecEach)

\* update_task(task_id, None, None) of the backend of class kind returns
\* what get_task(task_id) returns and leaves every variable of the store as
\* it is
NoOpUpdate(kind, task_id) ==
    LET r == invoke(kind, Call("update_task", task_id, PyNone, PyNone))
    IN  /\ r.ret = invoke(kind, Call("get_task", task_id, PyNone, PyNone)).ret
        /\ r.objs = objs
        /\ r.data = _data
        /\ r.next_id = _next_id
        /\ r.tasks = tasks
        /\ r.seq = sqlite_sequence
        /\ r.pg_tasks = pg_tasks
        /\ r.pg_seq = tasks_id_seq

\* C13: for an existing id, update(id, None, None) returns the task as stored
\* and leaves all tasks and the id counter unchanged, on each backend and in
\* every state, so that repeating it any number of times returns what one
\* getById(id) returns.
C13_NoOpUpdate ==
    /\ [](\A kind \in {"memory", "sqlite", "postgres"} : \A i \in TaskIds :
              NoOpUpdate(kind, i))
    /\ [][(call'.op = "update_task" /\ call'.title = PyNone /\ call'.done = PyNone) =>
              /\ UNCHANGED storeVars
              /\ \A kind \in {"memory", "sqlite", "postgres"} :
                     ret'[kind] = invoke(kind, Call("get_task", call'.task_id,
                                                    PyNone, PyNone)).ret]_vars

\* a no-op update of a task that an earlier update had marked done
C13_Witness ==
    /\ call = Call("update_task", 1, PyNone, PyNone)
    /\ ret.sqlite = TaskDict(1, PyStr(<<"b">>), PyBool(TRUE))
    /\ ret.memory = ret.sqlite
    /\ Len(issued) = 2

\* C14: the in-memory, the SQLite and the Postgres backend, started empty and
\* given the same calls one at a time with arguments the API lets through,
\* return the same result for every call, the ids assigned included, and
\* list the same tasks afterwards.
C14_BackendsEquivalent ==
    /\ call.op # "none" => ret.memory = ret.sqlite /\ ret.sqlite = ret.postgres
    /\ Memory_get_all_tasks = SQLite_get_all_tasks
    /\ SQLite_get_all_tasks = Postgres_get_all_tasks

\* a create after the task with the highest id was deleted: id 2 on each
C14_Witness ==
    /\ call.op = "create_task"
    /\ removed = {1}
    /\ ret.memory.id = 2
    /\ ret.sqlite.id = 2
    /\ ret.postgres.id = 2
    /\ Stored(1) = PyNone

====
